---------------------------- MODULE Spec2Model ----------------------------
(***************************************************************************)
(* A model of libnrb (src/nrb.h, src/nrb.c): the NRB document store, its   *)
(* validator, and the binary parser and serializer.                        *)
(*                                                                         *)
(* Representation.                                                         *)
(*  - A pointer is a sequence of length 0 (NULL) or 1 (the object pointed  *)
(*    to).                                                                 *)
(*  - An int64_t / uint64_t is the tuple of its eight bytes, most          *)
(*    significant first, in two's complement: the model checker's integers *)
(*    are narrower than 64 bits.  A raw uint32_t is a tuple of four bytes. *)
(*    int32_t values that the code keeps in [-1, 2^31-1] are integers.     *)
(*  - A C array (pSect, pNote) is run-length encoded: a sequence of runs   *)
(*    [n, v] standing for n consecutive elements equal to v.  The whole    *)
(*    allocated block is modelled (its length is the capacity), so tables  *)
(*    of 65535 sections or 1048576 notes stay small as values.             *)
(*  - A byte stream (a FILE) is a sequence of bytes; a read position is    *)
(*    the number of bytes consumed.                                        *)
(***************************************************************************)
EXTENDS Integers, Sequences, FiniteSets, TLC

(***************************************************************************)
(* Program constants                                                       *)
(***************************************************************************)
NRB_MAXSECT == 65535
NRB_MAXNOTE == 1048576
NRB_MINPITCH == -39
NRB_MAXPITCH == 48
NRB_MAXART == 61
NRB_MAXRAMP == 16384
NRB_VER_OK == 0
NRB_VER_MINOR == 1
NRB_VER_MAJOR == 2
NRB_VER_ERROR == 3
NRB_MAXUINT32 == 2147483647
NRB_MAXUINT16 == 65535
NRB_MINBIAS8 == -128
NRB_MAXBIAS8 == 127
NRB_BIAS8 == 128
NRB_SIGPRI == 1928196216
NRB_SIGSEC == 778990178
NRB_SECTALLOC_INIT == 16
NRB_NOTEALLOC_INIT == 256

(***************************************************************************)
(* Bounds of the model                                                     *)
(***************************************************************************)
\* API calls modelled on one run of the program.
MaxCalls == 3
\* nrb_sort and nrb_serialize are modelled on tables of at most this many
\* used elements (sections and notes each).
MaxTable == 3
\* The biased-byte codec is modelled on the values -MaxBias..MaxBias.
MaxBias == 130

NULL == << >>

(***************************************************************************)
(* 64-bit integers as byte tuples                                          *)
(***************************************************************************)
\* The int64_t with the non-negative value n < 2^31.
I64(n) == << 0, 0, 0, 0, (n \div 16777216) % 256, (n \div 65536) % 256,
             (n \div 256) % 256, n % 256 >>

I64Zero == I64(0)

\* (int64_t) -1
I64Neg1 == << 255, 255, 255, 255, 255, 255, 255, 255 >>

\* INT64_MAX, which is also NRB_MAXUINT64
NRB_MAXUINT64 == << 127, 255, 255, 255, 255, 255, 255, 255 >>

\* The sign bit of an int64_t.
I64IsNeg(a) == a[1] >= 128

\* a < b for two byte tuples of one length read as unsigned integers.
RECURSIVE BytesLt(_, _)
BytesLt(a, b) ==
  IF a = << >> THEN FALSE
  ELSE IF a[1] # b[1] THEN a[1] < b[1]
  ELSE BytesLt(Tail(a), Tail(b))

\* a < b for int64_t (two's complement: equal signs compare as unsigned).
I64Lt(a, b) ==
  IF I64IsNeg(a) # I64IsNeg(b) THEN I64IsNeg(a) ELSE BytesLt(a, b)

I64Le(a, b) == a = b \/ I64Lt(a, b)

(***************************************************************************)
(* C arrays, run-length encoded                                            *)
(***************************************************************************)
Run(n, v) == IF n > 0 THEN << [n |-> n, v |-> v] >> ELSE << >>

\* Adjacent runs of one value are one run.
RECURSIVE ArrNorm(_)
ArrNorm(a) ==
  IF Len(a) < 2 THEN a
  ELSE IF a[1].v = a[2].v
       THEN ArrNorm(<< [n |-> a[1].n + a[2].n, v |-> a[1].v] >> \o Tail(Tail(a)))
       ELSE << a[1] >> \o ArrNorm(Tail(a))

\* Number of elements of the block.
RECURSIVE ArrLen(_)
ArrLen(a) == IF a = << >> THEN 0 ELSE a[1].n + ArrLen(Tail(a))

\* a[i], for 0 <= i < ArrLen(a).
RECURSIVE ArrGet(_, _)
ArrGet(a, i) == IF i < a[1].n THEN a[1].v ELSE ArrGet(Tail(a), i - a[1].n)

RECURSIVE ArrSetRaw(_, _, _)
ArrSetRaw(a, i, v) ==
  IF i < a[1].n
  THEN Run(i, a[1].v) \o Run(1, v) \o Run(a[1].n - i - 1, a[1].v) \o Tail(a)
  ELSE << a[1] >> \o ArrSetRaw(Tail(a), i - a[1].n, v)

\* a[i] = v, for 0 <= i < ArrLen(a).
ArrSet(a, i, v) == ArrNorm(ArrSetRaw(a, i, v))

\* calloc(n, sizeof z): n elements, all zero.
Calloc(n, z) == Run(n, z)

\* realloc(a, newcap) followed by memset(&a[cap], 0, newcap - cap).
ReallocZero(a, newcap, z) == ArrNorm(a \o Run(newcap - ArrLen(a), z))

\* The elements a[0], ..., a[k-1] as a sequence.
ArrPrefix(a, k) == [i \in 1..k |-> ArrGet(a, i - 1)]

(***************************************************************************)
(* NRB_NOTE and NRB_DATA                                                   *)
(***************************************************************************)
Note(start, release, pitch, art, ramp, sect, layer_i) ==
  [start |-> start, release |-> release, pitch |-> pitch, art |-> art,
   ramp |-> ramp, sect |-> sect, layer_i |-> layer_i]

\* An NRB_NOTE of all-zero bytes (calloc, memset).
ZeroNote == Note(I64Zero, I64Zero, 0, 0, 0, 0, 0)

\* v & 0x3f for a byte v.
And3f(v) == v % 64

Data(sect_count, sect_cap, note_count, note_cap, pSect, pNote) ==
  [sect_count |-> sect_count, sect_cap |-> sect_cap,
   note_count |-> note_count, note_cap |-> note_cap,
   pSect |-> pSect, pNote |-> pNote]

(***************************************************************************)
(* Results of a call: the document pointer after it, the value returned,   *)
(* whether it ended in abort(), and whether it touched memory outside an   *)
(* allocated block.                                                        *)
(***************************************************************************)
Result(pd, ret, fault, ub, off, note) ==
  [pd |-> pd, ret |-> ret, fault |-> fault, ub |-> ub,
   off |-> off, note |-> note]

Returned(pd, ret) == Result(pd, ret, FALSE, FALSE, I64Zero, ZeroNote)
ReturnedOffset(pd, off) == Result(pd, 0, FALSE, FALSE, off, ZeroNote)
ReturnedNote(pd, note) == Result(pd, 0, FALSE, FALSE, I64Zero, note)
Aborted(pd) == Result(pd, 0, TRUE, FALSE, I64Zero, ZeroNote)
OutOfBlock(pd) == Result(pd, 0, FALSE, TRUE, I64Zero, ZeroNote)

(***************************************************************************)
(* Document store                                                          *)
(***************************************************************************)
nrb_alloc ==
  << Data(1, NRB_SECTALLOC_INIT, 0, NRB_NOTEALLOC_INIT,
          ArrSet(Calloc(NRB_SECTALLOC_INIT, I64Zero), 0, I64Zero),
          Calloc(NRB_NOTEALLOC_INIT, ZeroNote)) >>

nrb_free(pd) == Returned(NULL, 0)

nrb_sections(pd) ==
  IF pd = NULL THEN Aborted(pd) ELSE Returned(pd, pd[1].sect_count)

nrb_notes(pd) ==
  IF pd = NULL THEN Aborted(pd) ELSE Returned(pd, pd[1].note_count)

nrb_offset(pd, sect_i) ==
  IF pd = NULL THEN Aborted(pd)
  ELSE IF sect_i < 0 \/ sect_i >= pd[1].sect_count THEN Aborted(pd)
  ELSE IF sect_i >= ArrLen(pd[1].pSect) THEN OutOfBlock(pd)
  ELSE ReturnedOffset(pd, ArrGet(pd[1].pSect, sect_i))

nrb_get(pd, note_i) ==
  IF pd = NULL THEN Aborted(pd)
  ELSE IF note_i < 0 \/ note_i >= pd[1].note_count THEN Aborted(pd)
  ELSE IF note_i >= ArrLen(pd[1].pNote) THEN OutOfBlock(pd)
  ELSE ReturnedNote(pd, ArrGet(pd[1].pNote, note_i))

\* Mutation of NoteCheckAborts: the test release <= start is left out.
NoteCheckAborts_norelease(pd, pn) ==
  \/ I64Lt(pn.start, I64Zero)
  \/ pn.pitch < NRB_MINPITCH \/ pn.pitch > NRB_MAXPITCH
  \/ And3f(pn.art) > NRB_MAXART
  \/ pn.ramp > NRB_MAXRAMP
  \/ pn.sect >= pd[1].sect_count
  \/ nrb_offset(pd, pn.sect).fault
  \/ I64Lt(pn.start, nrb_offset(pd, pn.sect).off)

\* The checks of a note's fields that nrb_set and nrb_append both make, in
\* the code's order; TRUE when one of them aborts.
NoteCheckAborts(pd, pn) ==
  \/ I64Lt(pn.start, I64Zero)
  \/ I64Le(pn.release, pn.start)
  \/ pn.pitch < NRB_MINPITCH \/ pn.pitch > NRB_MAXPITCH
  \/ And3f(pn.art) > NRB_MAXART
  \/ pn.ramp > NRB_MAXRAMP
  \/ pn.sect >= pd[1].sect_count
  \/ nrb_offset(pd, pn.sect).fault
  \/ I64Lt(pn.start, nrb_offset(pd, pn.sect).off)

\* Mutation of nrb_set: the note is stored without its fields being checked.
nrb_set_unchecked(pd, note_i, pn) ==
  IF pd = NULL THEN Aborted(pd)
  ELSE IF note_i < 0 \/ note_i >= pd[1].note_count THEN Aborted(pd)
  ELSE IF note_i >= ArrLen(pd[1].pNote) THEN OutOfBlock(pd)
  ELSE Returned(<< [pd[1] EXCEPT !.pNote = ArrSet(@, note_i, pn)] >>, 0)

\* Mutation of nrb_set: the note is stored in the first element.
nrb_set_first(pd, note_i, pn) ==
  IF pd = NULL THEN Aborted(pd)
  ELSE IF note_i < 0 \/ note_i >= pd[1].note_count THEN Aborted(pd)
  ELSE IF NoteCheckAborts(pd, pn) THEN Aborted(pd)
  ELSE IF note_i >= ArrLen(pd[1].pNote) THEN OutOfBlock(pd)
  ELSE Returned(<< [pd[1] EXCEPT !.pNote = ArrSet(@, 0, pn)] >>, 0)

nrb_set(pd, note_i, pn) ==
  IF pd = NULL THEN Aborted(pd)
  ELSE IF note_i < 0 \/ note_i >= pd[1].note_count THEN Aborted(pd)
  ELSE IF NoteCheckAborts(pd, pn) THEN Aborted(pd)
  ELSE IF note_i >= ArrLen(pd[1].pNote) THEN OutOfBlock(pd)
  ELSE Returned(<< [pd[1] EXCEPT !.pNote = ArrSet(@, note_i, pn)] >>, 0)

\* Mutation of NewCap: the doubled capacity is not cut to the maximum.
NewCap_noclamp(cap, init, max) ==
  LET doubled == cap * 2
  IN  IF doubled < init THEN init ELSE doubled

\* The capacity a full table is reallocated to.
NewCap(cap, init, max) ==
  LET doubled == cap * 2
      raised == IF doubled < init THEN init ELSE doubled
  IN  IF raised > max THEN max ELSE raised

\* Mutation of nrb_sect: the offset is not compared with the last offset.
nrb_sect_unordered(pd, offset) ==
  IF pd = NULL \/ I64Lt(offset, I64Zero) THEN Aborted(pd)
  ELSE IF pd[1].sect_count < NRB_MAXSECT
  THEN LET d == pd[1]
           newcap == NewCap(d.sect_cap, NRB_SECTALLOC_INIT, NRB_MAXSECT)
           g == IF d.sect_count >= d.sect_cap
                THEN [d EXCEPT !.pSect = ReallocZero(@, newcap, I64Zero),
                               !.sect_cap = newcap]
                ELSE d
       IN  IF g.sect_count >= ArrLen(g.pSect) THEN OutOfBlock(pd)
           ELSE Returned(<< [g EXCEPT !.pSect = ArrSet(@, g.sect_count, offset),
                                      !.sect_count = @ + 1] >>, 1)
  ELSE Returned(pd, 0)

\* Mutation of nrb_sect: a full table is not reallocated, the call fails.
nrb_sect_nogrow(pd, offset) ==
  IF pd = NULL \/ I64Lt(offset, I64Zero) THEN Aborted(pd)
  ELSE IF nrb_offset(pd, pd[1].sect_count - 1).fault THEN Aborted(pd)
  ELSE IF I64Lt(offset, nrb_offset(pd, pd[1].sect_count - 1).off)
       THEN Aborted(pd)
  ELSE IF pd[1].sect_count < pd[1].sect_cap
  THEN Returned(<< [pd[1] EXCEPT !.pSect = ArrSet(@, pd[1].sect_count, offset),
                                 !.sect_count = @ + 1] >>, 1)
  ELSE Returned(pd, 0)

nrb_sect(pd, offset) ==
  IF pd = NULL \/ I64Lt(offset, I64Zero) THEN Aborted(pd)
  ELSE IF nrb_offset(pd, pd[1].sect_count - 1).fault THEN Aborted(pd)
  ELSE IF I64Lt(offset, nrb_offset(pd, pd[1].sect_count - 1).off)
       THEN Aborted(pd)
  ELSE IF pd[1].sect_count < NRB_MAXSECT
  THEN LET d == pd[1]
           newcap == NewCap(d.sect_cap, NRB_SECTALLOC_INIT, NRB_MAXSECT)
           g == IF d.sect_count >= d.sect_cap
                THEN [d EXCEPT !.pSect = ReallocZero(@, newcap, I64Zero),
                               !.sect_cap = newcap]
                ELSE d
       IN  IF g.sect_count >= ArrLen(g.pSect) THEN OutOfBlock(pd)
           ELSE Returned(<< [g EXCEPT !.pSect = ArrSet(@, g.sect_count, offset),
                                      !.sect_count = @ + 1] >>, 1)
  ELSE Returned(pd, 0)

\* Mutation of nrb_append: the ceiling is taken one note too low.
nrb_append_lowceiling(pd, pn) ==
  IF pd = NULL THEN Aborted(pd)
  ELSE IF NoteCheckAborts(pd, pn) THEN Aborted(pd)
  ELSE IF pd[1].note_count < NRB_MAXNOTE - 1
  THEN LET d == pd[1]
           newcap == NewCap(d.note_cap, NRB_NOTEALLOC_INIT, NRB_MAXNOTE)
           g == IF d.note_count >= d.note_cap
                THEN [d EXCEPT !.pNote = ReallocZero(@, newcap, ZeroNote),
                               !.note_cap = newcap]
                ELSE d
       IN  IF g.note_count >= ArrLen(g.pNote) THEN OutOfBlock(pd)
           ELSE Returned(<< [g EXCEPT !.pNote = ArrSet(@, g.note_count, pn),
                                      !.note_count = @ + 1] >>, 1)
  ELSE Returned(pd, 0)

nrb_append(pd, pn) ==
  IF pd = NULL THEN Aborted(pd)
  ELSE IF NoteCheckAborts(pd, pn) THEN Aborted(pd)
  ELSE IF pd[1].note_count < NRB_MAXNOTE
  THEN LET d == pd[1]
           newcap == NewCap(d.note_cap, NRB_NOTEALLOC_INIT, NRB_MAXNOTE)
           g == IF d.note_count >= d.note_cap
                THEN [d EXCEPT !.pNote = ReallocZero(@, newcap, ZeroNote),
                               !.note_cap = newcap]
                ELSE d
       IN  IF g.note_count >= ArrLen(g.pNote) THEN OutOfBlock(pd)
           ELSE Returned(<< [g EXCEPT !.pNote = ArrSet(@, g.note_count, pn),
                                      !.note_count = @ + 1] >>, 1)
  ELSE Returned(pd, 0)

(***************************************************************************)
(* Primitive codec: writers.  What a writer does to the output file is     *)
(* [bytes, fault]: the bytes it appends and whether it ends in abort().    *)
(* Then(w1, w2) is w1 followed by w2: nothing follows an abort.            *)
(***************************************************************************)
Wrote(bytes) == [bytes |-> bytes, fault |-> FALSE]
WriteAbort == [bytes |-> << >>, fault |-> TRUE]

Then(w1, w2) ==
  IF w1.fault THEN w1
  ELSE [bytes |-> w1.bytes \o w2.bytes, fault |-> w2.fault]

nrb_writeByte(c) ==
  IF c < 0 \/ c > 255 THEN WriteAbort ELSE Wrote(<< c >>)

\* (v >> shift) & 0xff for a byte tuple v and a shift that is a multiple of 8.
ByteAt(v, shift) == v[Len(v) - (shift \div 8)]

nrb_writeUint64(v) ==
  Then(Then(Then(Then(Then(Then(Then(
    nrb_writeByte(ByteAt(v, 56)),
    nrb_writeByte(ByteAt(v, 48))),
    nrb_writeByte(ByteAt(v, 40))),
    nrb_writeByte(ByteAt(v, 32))),
    nrb_writeByte(ByteAt(v, 24))),
    nrb_writeByte(ByteAt(v, 16))),
    nrb_writeByte(ByteAt(v, 8))),
    nrb_writeByte(ByteAt(v, 0)))

\* v is a uint32_t below 2^31 (every caller passes a non-negative int32_t).
nrb_writeUint32(v) ==
  Then(Then(Then(
    nrb_writeByte(v \div 16777216),
    nrb_writeByte((v \div 65536) % 256)),
    nrb_writeByte((v \div 256) % 256)),
    nrb_writeByte(v % 256))

\* Mutation of nrb_writeUint16: least significant byte first.
nrb_writeUint16_swapped(v) ==
  Then(nrb_writeByte(v % 256), nrb_writeByte(v \div 256))

nrb_writeUint16(v) ==
  Then(nrb_writeByte(v \div 256), nrb_writeByte(v % 256))

nrb_writeBias8(v) ==
  IF v < NRB_MINBIAS8 \/ v > NRB_MAXBIAS8 THEN WriteAbort
  ELSE nrb_writeByte(v + NRB_BIAS8)

(***************************************************************************)
(* Primitive codec: readers.  pf is the byte sequence of the file and pos  *)
(* the number of bytes already consumed; every reader returns the new      *)
(* position with its result.                                               *)
(***************************************************************************)
nrb_readByte(pf, pos) ==
  IF pos < Len(pf) THEN [c |-> pf[pos + 1], pos |-> pos + 1]
  ELSE [c |-> -1, pos |-> pos]

\* *pv <<= 8; *pv |= c  on a byte tuple of fixed width.
ShlOr(pv, c) == Tail(pv) \o << c >>

\* The loop of nrb_read64, nrb_read32 and nrb_read16: n bytes, most
\* significant first, leaving at the first byte that cannot be read.
RECURSIVE ReadLoop(_, _, _, _, _)
ReadLoop(pf, pos, i, n, pv) ==
  IF i >= n THEN [status |-> TRUE, pv |-> pv, pos |-> pos]
  ELSE LET b == nrb_readByte(pf, pos)
       IN  IF b.c < 0 THEN [status |-> FALSE, pv |-> pv, pos |-> b.pos]
           ELSE ReadLoop(pf, b.pos, i + 1, n, ShlOr(pv, b.c))

nrb_read64(pf, pos) == ReadLoop(pf, pos, 0, 8, << 0, 0, 0, 0, 0, 0, 0, 0 >>)
nrb_read32(pf, pos) == ReadLoop(pf, pos, 0, 4, << 0, 0, 0, 0 >>)
nrb_read16(pf, pos) == ReadLoop(pf, pos, 0, 2, << 0, 0 >>)

\* The four bytes of a non-negative int32_t.
U32(n) == << n \div 16777216, (n \div 65536) % 256, (n \div 256) % 256, n % 256 >>

\* The value of a byte tuple that is below 2^31.
RECURSIVE IntOf(_)
IntOf(b) == IF b = << >> THEN 0 ELSE IntOf(SubSeq(b, 1, Len(b) - 1)) * 256 + b[Len(b)]

nrb_readUint64(pf, pos) ==
  LET r == nrb_read64(pf, pos)
      status == r.status /\ ~BytesLt(NRB_MAXUINT64, r.pv)
  IN  [v |-> IF status THEN r.pv ELSE I64Neg1, pos |-> r.pos]

nrb_readUint32(pf, pos) ==
  LET r == nrb_read32(pf, pos)
      status == r.status /\ ~BytesLt(U32(NRB_MAXUINT32), r.pv)
  IN  [v |-> IF status THEN IntOf(r.pv) ELSE -1, pos |-> r.pos]

nrb_readUint16(pf, pos) ==
  LET r == nrb_read16(pf, pos)
      status == r.status /\ ~(IntOf(r.pv) > NRB_MAXUINT16)
  IN  [v |-> IF status THEN IntOf(r.pv) ELSE -1, pos |-> r.pos]

\* Mutation of nrb_readBias8: the bias taken off is one too small.
nrb_readBias8_short(pf, pos) ==
  LET b == nrb_readByte(pf, pos)
  IN  IF b.c < 0 THEN [status |-> FALSE, v |-> 0, pos |-> b.pos]
      ELSE [status |-> TRUE, v |-> b.c - (NRB_BIAS8 - 1), pos |-> b.pos]

nrb_readBias8(pf, pos) ==
  LET b == nrb_readByte(pf, pos)
  IN  IF b.c < 0 THEN [status |-> FALSE, v |-> 0, pos |-> b.pos]
      ELSE [status |-> TRUE, v |-> b.c - NRB_BIAS8, pos |-> b.pos]

(***************************************************************************)
(* Format driver: nrb_parse.  The parser's locals are the record           *)
(*   status   the status flag                                              *)
(*   pos      bytes of pf consumed                                         *)
(*   reads    calls made to the field readers                              *)
(*   pVer     the value last written to *pVer (NoVer: none yet)            *)
(*   nver     how many times *pVer has been written                        *)
(*   ver_major, ver_minor                                                  *)
(*   pd       the structure being built (NULL: not allocated, or freed)    *)
(* and each step below is one block of the function, in order.             *)
(***************************************************************************)
\* The caller's version variable before nrb_parse has written to it.
NoVer == -1

\* allocs and frees are the blocks the call has obtained from malloc or
\* calloc and the blocks it has passed to free, in the order of the calls.
ParseStart ==
  [status |-> TRUE, pos |-> 0, reads |-> 0, pVer |-> NoVer, nver |-> 0,
   ver_major |-> 0, ver_minor |-> 0, pd |-> NULL,
   allocs |-> << >>, frees |-> << >>]

\* malloc or calloc has returned the block b; free(b).
Allocated(p, b) == [p EXCEPT !.allocs = Append(@, b)]
Freed(p, b) == [p EXCEPT !.frees = Append(@, b)]

WriteVer(p, v) == [p EXCEPT !.pVer = v, !.nver = @ + 1]

\* The primary signature.
ParseSigPri(pf, p) ==
  LET r == nrb_readUint32(pf, p.pos)
  IN  IF r.v # NRB_SIGPRI
      THEN WriteVer([p EXCEPT !.pos = r.pos, !.reads = @ + 1,
                              !.status = FALSE], NRB_VER_ERROR)
      ELSE [p EXCEPT !.pos = r.pos, !.reads = @ + 1]

\* Mutation of ParseSigSec: the word is read and not compared.
ParseSigSec_any(pf, p) ==
  LET r == nrb_readUint32(pf, p.pos)
  IN  IF ~p.status THEN p
      ELSE IF r.v < 0
      THEN WriteVer([p EXCEPT !.pos = r.pos, !.reads = @ + 1,
                              !.status = FALSE], NRB_VER_ERROR)
      ELSE [p EXCEPT !.pos = r.pos, !.reads = @ + 1]

\* The secondary signature.
ParseSigSec(pf, p) ==
  LET r == nrb_readUint32(pf, p.pos)
  IN  IF ~p.status THEN p
      ELSE IF r.v # NRB_SIGSEC
      THEN WriteVer([p EXCEPT !.pos = r.pos, !.reads = @ + 1,
                              !.status = FALSE], NRB_VER_ERROR)
      ELSE [p EXCEPT !.pos = r.pos, !.reads = @ + 1]

ParseSignature(pf, p) == ParseSigSec(pf, ParseSigPri(pf, p))

ParseMajor(pf, p) ==
  LET b == nrb_readByte(pf, p.pos)
  IN  IF ~p.status THEN p
      ELSE IF b.c < 0
      THEN WriteVer([p EXCEPT !.pos = b.pos, !.reads = @ + 1, !.ver_major = b.c,
                              !.status = FALSE], NRB_VER_ERROR)
      ELSE [p EXCEPT !.pos = b.pos, !.reads = @ + 1, !.ver_major = b.c]

ParseMinor(pf, p) ==
  LET b == nrb_readByte(pf, p.pos)
  IN  IF ~p.status THEN p
      ELSE IF b.c < 0
      THEN WriteVer([p EXCEPT !.pos = b.pos, !.reads = @ + 1, !.ver_minor = b.c,
                              !.status = FALSE], NRB_VER_ERROR)
      ELSE [p EXCEPT !.pos = b.pos, !.reads = @ + 1, !.ver_minor = b.c]

\* Mutation of CheckMajor: only a major version above one fails.
CheckMajor_above(p) ==
  IF p.status /\ p.ver_major > 1
  THEN WriteVer([p EXCEPT !.status = FALSE], NRB_VER_MAJOR)
  ELSE p

\* A major version other than one fails.
CheckMajor(p) ==
  IF p.status /\ p.ver_major # 1
  THEN WriteVer([p EXCEPT !.status = FALSE], NRB_VER_MAJOR)
  ELSE p

\* Minor version zero is OK, any other is MINOR, and the parse goes on.
CheckMinor(p) ==
  IF ~p.status THEN p
  ELSE IF p.ver_minor = 0 THEN WriteVer(p, NRB_VER_OK)
  ELSE WriteVer(p, NRB_VER_MINOR)

ParseVersion(pf, p) == CheckMinor(CheckMajor(ParseMinor(pf, ParseMajor(pf, p))))

\* malloc and memset of the structure.
ParseAllocData(p) ==
  IF ~p.status THEN p
  ELSE Allocated([p EXCEPT !.pd = << Data(0, 0, 0, 0, NULL, NULL) >>], "pd")

\* Mutation of ParseSectCount: a bad count also stores NRB_VER_ERROR.
ParseSectCount_error(pf, p) ==
  LET r == nrb_readUint16(pf, p.pos)
  IN  IF ~p.status THEN p
      ELSE IF r.v < 1 \/ r.v > NRB_MAXSECT
      THEN WriteVer([p EXCEPT !.pos = r.pos, !.reads = @ + 1,
                              !.pd[1].sect_count = r.v,
                              !.status = FALSE], NRB_VER_ERROR)
      ELSE [p EXCEPT !.pos = r.pos, !.reads = @ + 1, !.pd[1].sect_count = r.v]

ParseSectCount(pf, p) ==
  LET r == nrb_readUint16(pf, p.pos)
  IN  IF ~p.status THEN p
      ELSE [p EXCEPT !.pos = r.pos, !.reads = @ + 1, !.pd[1].sect_count = r.v,
                     !.status = ~(r.v < 1 \/ r.v > NRB_MAXSECT)]

\* Mutation of ParseNoteCount: a note count of zero is let through.
ParseNoteCount_zero(pf, p) ==
  LET r == nrb_readUint32(pf, p.pos)
  IN  IF ~p.status THEN p
      ELSE [p EXCEPT !.pos = r.pos, !.reads = @ + 1, !.pd[1].note_count = r.v,
                     !.status = ~(r.v < 0 \/ r.v > NRB_MAXNOTE)]

ParseNoteCount(pf, p) ==
  LET r == nrb_readUint32(pf, p.pos)
  IN  IF ~p.status THEN p
      ELSE [p EXCEPT !.pos = r.pos, !.reads = @ + 1, !.pd[1].note_count = r.v,
                     !.status = ~(r.v < 1 \/ r.v > NRB_MAXNOTE)]

ParseCounts(pf, p) == ParseNoteCount(pf, ParseSectCount(pf, p))

\* One reserved field: read, and fail if the reader reports an error.
ParseReservedField(pf, p) ==
  LET r == nrb_readUint32(pf, p.pos)
  IN  IF ~p.status THEN p
      ELSE [p EXCEPT !.pos = r.pos, !.reads = @ + 1, !.status = ~(r.v < 0)]

ParseReserved(pf, p) ==
  ParseReservedField(pf, ParseReservedField(pf,
    ParseReservedField(pf, ParseReservedField(pf, p))))

\* Capacities equal to the counts, and the two tables allocated.
ParseAllocTables(p) ==
  IF ~p.status THEN p
  ELSE Allocated(Allocated(
         [p EXCEPT !.pd[1].sect_cap = p.pd[1].sect_count,
                   !.pd[1].note_cap = p.pd[1].note_count,
                   !.pd[1].pSect = Calloc(p.pd[1].sect_count, I64Zero),
                   !.pd[1].pNote = Calloc(p.pd[1].note_count, ZeroNote)],
         "pSect"), "pNote")

\* The body of the section loop for index i, given the value v read and the
\* position after it: the value is stored, then checked.
ParseSectStore(p, i, v, pos) ==
  [p EXCEPT !.pos = pos, !.reads = @ + 1,
            !.pd[1].pSect = ArrSet(@, i, v),
            !.status =
               IF I64Lt(v, I64Zero) THEN FALSE
               ELSE IF i < 1 THEN ~(v # I64Zero)
               ELSE ~I64Lt(v, ArrGet(p.pd[1].pSect, i - 1))]

ParseSect(pf, p, i) ==
  ParseSectStore(p, i, nrb_readUint64(pf, p.pos).v, nrb_readUint64(pf, p.pos).pos)

\* The section loop from index i on.
RECURSIVE ParseSectLoop(_, _, _)
ParseSectLoop(pf, p, i) ==
  IF ~p.status \/ ~(i < p.pd[1].sect_count) THEN p
  ELSE ParseSectLoop(pf, ParseSect(pf, p, i), i + 1)

ParseSections(pf, p) == IF ~p.status THEN p ELSE ParseSectLoop(pf, p, 0)

\* The fields of one note.  f is [status, pos, reads, pn]: the status flag,
\* the read position, the fields read and the note as read so far.
ParseStartField(pf, f) ==
  LET r == nrb_readUint64(pf, f.pos)
  IN  [f EXCEPT !.pos = r.pos, !.reads = @ + 1, !.pn.start = r.v,
                !.status = ~I64Lt(r.v, I64Zero)]

\* Mutation of ParseReleaseField: the release is read whatever the status.
ParseReleaseField_always(pf, f) ==
  LET r == nrb_readUint64(pf, f.pos)
  IN  [f EXCEPT !.pos = r.pos, !.reads = @ + 1, !.pn.release = r.v,
                !.status = f.status /\ ~I64Le(r.v, f.pn.start)]

ParseReleaseField(pf, f) ==
  LET r == nrb_readUint64(pf, f.pos)
  IN  IF ~f.status THEN f
      ELSE [f EXCEPT !.pos = r.pos, !.reads = @ + 1, !.pn.release = r.v,
                     !.status = ~I64Le(r.v, f.pn.start)]

ParsePitchField(pf, f) ==
  LET r == nrb_readBias8(pf, f.pos)
  IN  IF ~f.status THEN f
      ELSE IF r.status
      THEN IF r.v >= NRB_MINPITCH /\ r.v <= NRB_MAXPITCH
           THEN [f EXCEPT !.pos = r.pos, !.reads = @ + 1, !.pn.pitch = r.v]
           ELSE [f EXCEPT !.pos = r.pos, !.reads = @ + 1, !.status = FALSE]
      ELSE [f EXCEPT !.pos = r.pos, !.reads = @ + 1, !.status = FALSE]

\* Mutation of ParseArtField: the whole byte is compared with NRB_MAXART.
ParseArtField_whole(pf, f) ==
  LET r == nrb_readByte(pf, f.pos)
  IN  IF ~f.status THEN f
      ELSE IF r.c >= 0
      THEN IF r.c <= NRB_MAXART
           THEN [f EXCEPT !.pos = r.pos, !.reads = @ + 1, !.pn.art = r.c]
           ELSE [f EXCEPT !.pos = r.pos, !.reads = @ + 1, !.status = FALSE]
      ELSE [f EXCEPT !.pos = r.pos, !.reads = @ + 1, !.status = FALSE]

ParseArtField(pf, f) ==
  LET r == nrb_readByte(pf, f.pos)
  IN  IF ~f.status THEN f
      ELSE IF r.c >= 0
      THEN IF And3f(r.c) <= NRB_MAXART
           THEN [f EXCEPT !.pos = r.pos, !.reads = @ + 1, !.pn.art = r.c]
           ELSE [f EXCEPT !.pos = r.pos, !.reads = @ + 1, !.status = FALSE]
      ELSE [f EXCEPT !.pos = r.pos, !.reads = @ + 1, !.status = FALSE]

ParseRampField(pf, f) ==
  LET r == nrb_readUint16(pf, f.pos)
  IN  IF ~f.status THEN f
      ELSE IF r.v >= 0 /\ r.v <= NRB_MAXRAMP
      THEN [f EXCEPT !.pos = r.pos, !.reads = @ + 1, !.pn.ramp = r.v]
      ELSE [f EXCEPT !.pos = r.pos, !.reads = @ + 1, !.status = FALSE]

ParseSectField(pf, f, d) ==
  LET r == nrb_readUint16(pf, f.pos)
  IN  IF ~f.status THEN f
      ELSE IF r.v >= 0 /\ r.v < d.sect_count
      THEN [f EXCEPT !.pos = r.pos, !.reads = @ + 1, !.pn.sect = r.v]
      ELSE [f EXCEPT !.pos = r.pos, !.reads = @ + 1, !.status = FALSE]

ParseLayerField(pf, f) ==
  LET r == nrb_readUint16(pf, f.pos)
  IN  IF ~f.status THEN f
      ELSE IF r.v >= 0
      THEN [f EXCEPT !.pos = r.pos, !.reads = @ + 1, !.pn.layer_i = r.v]
      ELSE [f EXCEPT !.pos = r.pos, !.reads = @ + 1, !.status = FALSE]

\* The start must not be before the start of the note's section.
CheckSectStart(f, d) ==
  IF ~f.status THEN f
  ELSE [f EXCEPT !.status = ~I64Lt(f.pn.start, ArrGet(d.pSect, f.pn.sect))]

\* One note read at pos against the document d.
ParseNoteFields(pf, pos, d) ==
  CheckSectStart(ParseLayerField(pf, ParseSectField(pf, ParseRampField(pf,
    ParseArtField(pf, ParsePitchField(pf, ParseReleaseField(pf,
      ParseStartField(pf, [status |-> TRUE, pos |-> pos, reads |-> 0,
                            pn |-> ZeroNote]))))),
    d)), d)

\* The body of the note loop for index i, given the fields read.
ParseNoteStore(p, i, f) ==
  [p EXCEPT !.pos = f.pos, !.reads = @ + f.reads, !.status = f.status,
            !.pd[1].pNote = ArrSet(@, i, f.pn)]

\* The note loop from index i on.
RECURSIVE ParseNoteLoop(_, _, _)
ParseNoteLoop(pf, p, i) ==
  IF ~p.status \/ ~(i < p.pd[1].note_count) THEN p
  ELSE ParseNoteLoop(pf,
         ParseNoteStore(p, i, ParseNoteFields(pf, p.pos, p.pd[1])), i + 1)

\* Mutation of ParseNotes: bytes after the last note fail the parse.
ParseNotes_toend(pf, p) ==
  IF ~p.status THEN p
  ELSE IF ParseNoteLoop(pf, p, 0).pos < Len(pf)
  THEN [ParseNoteLoop(pf, p, 0) EXCEPT !.status = FALSE]
  ELSE ParseNoteLoop(pf, p, 0)

ParseNotes(pf, p) == IF ~p.status THEN p ELSE ParseNoteLoop(pf, p, 0)

\* free(b) if the pointer ptr is not NULL.
FreeIfSet(p, ptr, b) == IF ptr # NULL THEN Freed(p, b) ELSE p

\* Mutation of ParseRelease: only the structure is freed.
ParseRelease_leak(p) ==
  IF ~p.status /\ p.pd # NULL
  THEN [Freed(p, "pd") EXCEPT !.pd = NULL]
  ELSE p

\* On failure the tables that were allocated and the structure are freed.
ParseRelease(p) ==
  IF ~p.status /\ p.pd # NULL
  THEN [Freed(FreeIfSet(FreeIfSet(p, p.pd[1].pSect, "pSect"),
                        p.pd[1].pNote, "pNote"), "pd")
          EXCEPT !.pd = NULL]
  ELSE p

\* The call nrb_parse(pf, pVer): the locals at the return; pd is the value
\* returned and pVer the value left in the caller's variable.
nrb_parse(pf) ==
  ParseRelease(ParseNotes(pf, ParseSections(pf, ParseAllocTables(
    ParseReserved(pf, ParseCounts(pf, ParseAllocData(
      ParseVersion(pf, ParseSignature(pf, ParseStart)))))))))

(***************************************************************************)
(* Format driver: nrb_serialize                                            *)
(***************************************************************************)
\* The loop over the section table from index i on.
RECURSIVE WriteSections(_, _)
WriteSections(d, i) ==
  IF ~(i < d.sect_count) THEN Wrote(<< >>)
  ELSE Then(nrb_writeUint64(ArrGet(d.pSect, i)), WriteSections(d, i + 1))

\* Mutation of WriteNote: the articulation byte is written before the pitch.
WriteNote_artfirst(pn) ==
  Then(Then(Then(Then(Then(Then(
    nrb_writeUint64(pn.start),
    nrb_writeUint64(pn.release)),
    nrb_writeByte(pn.art)),
    nrb_writeBias8(pn.pitch)),
    nrb_writeUint16(pn.ramp)),
    nrb_writeUint16(pn.sect)),
    nrb_writeUint16(pn.layer_i))

WriteNote(pn) ==
  Then(Then(Then(Then(Then(Then(
    nrb_writeUint64(pn.start),
    nrb_writeUint64(pn.release)),
    nrb_writeBias8(pn.pitch)),
    nrb_writeByte(pn.art)),
    nrb_writeUint16(pn.ramp)),
    nrb_writeUint16(pn.sect)),
    nrb_writeUint16(pn.layer_i))

\* The loop over the note table from index i on.
RECURSIVE WriteNotes(_, _)
WriteNotes(d, i) ==
  IF ~(i < d.note_count) THEN Wrote(<< >>)
  ELSE Then(WriteNote(ArrGet(d.pNote, i)), WriteNotes(d, i + 1))

\* Mutation of WriteHeader: the first reserved field is written as 1.
WriteHeader_stamped(d) ==
  Then(Then(Then(Then(Then(Then(Then(Then(Then(
    nrb_writeUint32(NRB_SIGPRI),
    nrb_writeUint32(NRB_SIGSEC)),
    nrb_writeByte(1)),
    nrb_writeByte(0)),
    nrb_writeUint16(d.sect_count % 65536)),
    nrb_writeUint32(d.note_count)),
    nrb_writeUint32(1)),
    nrb_writeUint32(0)),
    nrb_writeUint32(0)),
    nrb_writeUint32(0))

\* Signatures, version, counts and the four reserved fields.
WriteHeader(d) ==
  Then(Then(Then(Then(Then(Then(Then(Then(Then(
    nrb_writeUint32(NRB_SIGPRI),
    nrb_writeUint32(NRB_SIGSEC)),
    nrb_writeByte(1)),
    nrb_writeByte(0)),
    nrb_writeUint16(d.sect_count % 65536)),
    nrb_writeUint32(d.note_count)),
    nrb_writeUint32(0)),
    nrb_writeUint32(0)),
    nrb_writeUint32(0)),
    nrb_writeUint32(0))

\* Mutation of nrb_serialize: a document without notes is written as well.
nrb_serialize_empty(pd) ==
  IF pd = NULL THEN [out |-> << >>, ret |-> 0, fault |-> TRUE]
  ELSE LET w == Then(Then(WriteHeader(pd[1]), WriteSections(pd[1], 0)),
                     WriteNotes(pd[1], 0))
       IN  [out |-> w.bytes, ret |-> IF w.fault THEN 0 ELSE 1, fault |-> w.fault]

\* The call nrb_serialize(pd, pf) on an empty file: [out, ret, fault], the
\* bytes written, the value returned and whether the call ended in abort().
nrb_serialize(pd) ==
  IF pd = NULL THEN [out |-> << >>, ret |-> 0, fault |-> TRUE]
  ELSE IF pd[1].note_count > 0
  THEN LET w == Then(Then(WriteHeader(pd[1]), WriteSections(pd[1], 0)),
                     WriteNotes(pd[1], 0))
       IN  [out |-> w.bytes, ret |-> IF w.fault THEN 0 ELSE 1, fault |-> w.fault]
  ELSE [out |-> << >>, ret |-> 0, fault |-> FALSE]

(***************************************************************************)
(* Ordering utility                                                        *)
(***************************************************************************)
\* Mutation of nrb_cmp: the later start compares as less.
nrb_cmp_reversed(pa, pb) ==
  IF I64Lt(pa.start, pb.start) THEN 1
  ELSE IF I64Lt(pb.start, pa.start) THEN -1
  ELSE 0

nrb_cmp(pa, pb) ==
  IF I64Lt(pa.start, pb.start) THEN -1
  ELSE IF I64Lt(pb.start, pa.start) THEN 1
  ELSE 0

\* qsort(base, n, size, cmp): the C standard fixes neither the algorithm nor
\* the order of elements that compare equal, so every arrangement of the
\* elements that is in order under cmp is a possible result.
Qsort(s) ==
  LET n == Len(s)
      perms == { f \in [1..n -> 1..n] : \A i, j \in 1..n : i # j => f[i] # f[j] }
  IN  { [i \in 1..n |-> s[f[i]]] : f \in
          { g \in perms : \A i \in 1..(n - 1) : nrb_cmp(s[g[i]], s[g[i + 1]]) <= 0 } }

\* a[0..Len(s)-1] = s
RECURSIVE ArrStore(_, _, _)
ArrStore(a, s, i) ==
  IF i > Len(s) THEN a ELSE ArrStore(ArrSet(a, i - 1, s[i]), s, i + 1)

\* The set of results the call can have.
nrb_sort(pd) ==
  IF pd = NULL THEN { Aborted(pd) }
  ELSE IF pd[1].note_count > 1
  THEN { Returned(<< [pd[1] EXCEPT !.pNote = ArrStore(@, s, 1)] >>, 0) :
           s \in Qsort(ArrPrefix(pd[1].pNote, pd[1].note_count)) }
  ELSE { Returned(pd, 0) }

(***************************************************************************)
(* Inputs of the model                                                     *)
(***************************************************************************)
NoteA == Note(I64(0), I64(1000), 0, 0, 0, 0, 0)
NoteB == Note(I64(7), I64(8), NRB_MAXPITCH, 253, NRB_MAXRAMP, 1, 65535)
NoteC == Note(I64(3), NRB_MAXUINT64, NRB_MINPITCH, 64, 1, 0, 1)

\* A valid note that starts when NoteA starts and differs from it.
NoteD == Note(I64(0), I64(2), 1, 128, 0, 0, 2)

\* Notes that break one validator rule each (the last one breaks rule 6 or
\* rule 7, depending on the section table).
BadNotes ==
  { Note(I64Neg1, I64(5), 0, 0, 0, 0, 0),
    Note(I64(7), I64(7), 0, 0, 0, 0, 0),
    Note(I64(7), I64(3), 0, 0, 0, 0, 0),
    Note(I64(0), I64(1), NRB_MAXPITCH + 1, 0, 0, 0, 0),
    Note(I64(0), I64(1), NRB_MINPITCH - 1, 0, 0, 0, 0),
    Note(I64(0), I64(1), 0, 62, 0, 0, 0),
    Note(I64(0), I64(1), 0, 255, 0, 0, 0),
    Note(I64(0), I64(1), 0, 0, NRB_MAXRAMP + 1, 0, 0),
    Note(I64(0), I64(1), 0, 0, 0, 65535, 0),
    Note(I64(3), I64(9), 0, 0, 0, 1, 0) }

AppendNotes == { NoteA, NoteB, NoteC } \cup BadNotes

SetNotes == { NoteA, NoteB, Note(I64(7), I64(7), 0, 0, 0, 0, 0),
              Note(I64(3), I64(9), 0, 0, 0, 1, 0) }

Offsets == { I64Zero, I64(5), I64Neg1 }

\* Indexes tried on a table with count used elements.
Indexes(count) == { -1, 0, count - 1, count }

\* The capacity of a table that started at init and now holds count elements.
RECURSIVE GrowTo(_, _, _, _)
GrowTo(cap, count, init, max) ==
  IF count <= cap THEN cap ELSE GrowTo(NewCap(cap, init, max), count, init, max)

\* The document after nrb_alloc(), ks - 1 calls nrb_sect(pd, 0) and kn calls
\* nrb_append(pd, &NoteA), for 1 <= ks <= NRB_MAXSECT and kn <= NRB_MAXNOTE.
Filled(ks, kn) ==
  LET scap == GrowTo(NRB_SECTALLOC_INIT, ks, NRB_SECTALLOC_INIT, NRB_MAXSECT)
      ncap == GrowTo(NRB_NOTEALLOC_INIT, kn, NRB_NOTEALLOC_INIT, NRB_MAXNOTE)
  IN  << Data(ks, scap, kn, ncap, Calloc(scap, I64Zero),
              ArrNorm(Run(kn, NoteA) \o Run(ncap - kn, ZeroNote))) >>

\* Two documents whose serialized images the parser's inputs are made from:
\* one section and one note; two sections and two notes out of start order.
BaseDoc1 == nrb_append(nrb_alloc, NoteA).pd
BaseDoc2 ==
  nrb_append(nrb_append(nrb_sect(nrb_alloc, I64(5)).pd, NoteB).pd, NoteC).pd

Bases == { nrb_serialize(BaseDoc1).out, nrb_serialize(BaseDoc2).out }

\* The stream s with byte number k (from 0) replaced by b.
Patch(s, k, b) == [s EXCEPT ![k + 1] = b]

\* The stream s with the version bytes v = <<major, minor>>.
WithVersion(s, v) == Patch(Patch(s, 8, v[1]), 9, v[2])

Versions ==
  { << 1, 0 >>, << 1, 1 >>, << 1, 255 >>, << 0, 0 >>, << 2, 0 >>,
    << 2, 7 >>, << 255, 1 >> }

PatchBytes == { 0, 128, 255 }

\* Every prefix of every base under every version.
Truncated ==
  UNION { { SubSeq(WithVersion(b, v), 1, n) : v \in Versions, n \in 0..Len(b) } :
          b \in Bases }

\* One byte outside the version bytes replaced.
Patched ==
  UNION { { Patch(WithVersion(b, v), k, x) :
              v \in { << 1, 0 >>, << 1, 1 >>, << 2, 0 >> },
              k \in (0..(Len(b) - 1)) \ { 8, 9 }, x \in PatchBytes } :
          b \in Bases }

\* Bytes after the image.
Trailing ==
  { WithVersion(b, v) \o t :
      b \in Bases, v \in { << 1, 0 >>, << 1, 1 >> },
      t \in { << 0 >>, << 255, 255, 255 >> } }

\* The stream s with the section count field ks and the note count field kn.
WithCounts(s, ks, kn) ==
  SubSeq(s, 1, 10) \o << ks \div 256, ks % 256 >> \o U32(kn)
    \o SubSeq(s, 17, Len(s))

\* Count fields at and next to their limits, in the image of BaseDoc1.
Counted ==
  { WithCounts(nrb_serialize(BaseDoc1).out, ks, kn) :
      ks \in { 0, 1, NRB_MAXSECT },
      kn \in { 0, 1, NRB_MAXNOTE, NRB_MAXNOTE + 1 } }

Streams == Truncated \cup Patched \cup Trailing \cup Counted

\* Three notes out of start order, two of them with the same start.
TieDoc ==
  nrb_append(nrb_append(nrb_append(nrb_alloc, NoteD).pd, NoteC).pd, NoteA).pd

\* The document nrb_parse returns for an image of ks sections at offset 0
\* and kn notes NoteA: both tables are exactly as long as their counts.
Loaded(ks, kn) ==
  << Data(ks, ks, kn, kn, Calloc(ks, I64Zero), Calloc(kn, NoteA)) >>

InitDocs ==
  { NULL, nrb_alloc, TieDoc,
    Loaded(NRB_MAXSECT - 1, NRB_MAXNOTE - 1),
    Filled(NRB_SECTALLOC_INIT, NRB_NOTEALLOC_INIT),
    Filled(NRB_MAXSECT - 1, 0),
    Filled(1, NRB_MAXNOTE - 1) }

(***************************************************************************)
(* The program: one document handle pd and a caller that makes one API     *)
(* call at a time.  The other variables describe the call that has just   *)
(* been made (op = "none": none, the caller is between calls): arg its     *)
(* arguments, pre the handle before it, ret the int it returned, off the   *)
(* offset nrb_offset returned, note the note nrb_get stored, fault that it *)
(* ended in abort(), ub that it went outside an allocated block; for       *)
(* nrb_parse inp the stream, ver the value left in *pVer, nver how often   *)
(* *pVer was written, pos the stream position at the end, reads the number *)
(* of calls it made to the field readers and heap the                      *)
(* blocks the call allocated and freed; val is the value nrb_readBias8     *)
(* stored through its pointer (it is called on its own below); for         *)
(* nrb_serialize out the bytes written.                                    *)
(***************************************************************************)
VARIABLES pd, calls, op, arg, ret, off, note, val, fault, ub, pre,
          ver, nver, pos, reads, heap, inp, out

vars == << pd, calls, op, arg, ret, off, note, val, fault, ub, pre,
           ver, nver, pos, reads, heap, inp, out >>

\* No block allocated or freed by the call.
NoHeap == [allocs |-> << >>, frees |-> << >>]

\* The arguments of a call: an index, an offset, a note (those it has).
Args(i, o, n) == [i |-> i, o |-> o, n |-> n]
NoArgs == Args(0, I64Zero, ZeroNote)

Init ==
  /\ pd \in InitDocs
  /\ calls = 0
  /\ op = "none" /\ arg = NoArgs /\ ret = 0
  /\ off = I64Zero /\ note = ZeroNote
  /\ fault = FALSE /\ ub = FALSE
  /\ pre = NULL /\ ver = NoVer /\ nver = 0 /\ pos = 0 /\ heap = NoHeap
  /\ reads = 0
  /\ val = 0
  /\ inp = << >> /\ out = << >>

Ready == op = "none" /\ calls < MaxCalls

\* The call name(a) has ended with result r.
After(r, name, a) ==
  /\ pd' = r.pd /\ ret' = r.ret /\ fault' = r.fault /\ ub' = r.ub
  /\ off' = r.off /\ note' = r.note /\ val' = 0
  /\ op' = name /\ arg' = a /\ pre' = pd
  /\ calls' = calls + 1

NoStreams ==
  /\ ver' = NoVer /\ nver' = 0 /\ pos' = 0 /\ heap' = NoHeap
  /\ reads' = 0
  /\ inp' = << >> /\ out' = << >>

\* The caller goes on after a call that returned.
Return ==
  /\ op # "none" /\ ~fault /\ ~ub
  /\ op' = "none" /\ arg' = NoArgs /\ ret' = 0 /\ pre' = NULL
  /\ off' = I64Zero /\ note' = ZeroNote /\ val' = 0
  /\ NoStreams
  /\ UNCHANGED << pd, calls, fault, ub >>

Do_alloc ==
  /\ Ready /\ pd = NULL
  /\ After(Returned(nrb_alloc, 0), "nrb_alloc", NoArgs)
  /\ NoStreams

Do_free ==
  /\ Ready /\ pd # NULL
  /\ After(nrb_free(pd), "nrb_free", NoArgs)
  /\ NoStreams

Do_sections ==
  /\ Ready /\ pd # NULL
  /\ After(nrb_sections(pd), "nrb_sections", NoArgs)
  /\ NoStreams

Do_notes ==
  /\ Ready /\ pd # NULL
  /\ After(nrb_notes(pd), "nrb_notes", NoArgs)
  /\ NoStreams

Do_offset ==
  /\ Ready /\ pd # NULL
  /\ \E i \in Indexes(pd[1].sect_count) :
       After(nrb_offset(pd, i), "nrb_offset", Args(i, I64Zero, ZeroNote))
  /\ NoStreams

Do_get ==
  /\ Ready /\ pd # NULL
  /\ \E i \in Indexes(pd[1].note_count) :
       After(nrb_get(pd, i), "nrb_get", Args(i, I64Zero, ZeroNote))
  /\ NoStreams

Do_set ==
  /\ Ready /\ pd # NULL
  /\ \E i \in Indexes(pd[1].note_count), n \in SetNotes :
       After(nrb_set(pd, i, n), "nrb_set", Args(i, I64Zero, n))
  /\ NoStreams

Do_sect ==
  /\ Ready /\ pd # NULL
  /\ \E o \in Offsets :
       After(nrb_sect(pd, o), "nrb_sect", Args(0, o, ZeroNote))
  /\ NoStreams

Do_append ==
  /\ Ready /\ pd # NULL
  /\ \E n \in AppendNotes :
       After(nrb_append(pd, n), "nrb_append", Args(0, I64Zero, n))
  /\ NoStreams

Do_sort ==
  /\ Ready /\ pd # NULL
  /\ pd[1].note_count <= MaxTable
  /\ \E r \in nrb_sort(pd) : After(r, "nrb_sort", NoArgs)
  /\ NoStreams

Do_parse ==
  /\ Ready /\ pd = NULL
  /\ \E s \in Streams :
       LET p == nrb_parse(s)
       IN  /\ After(Returned(p.pd, 0), "nrb_parse", NoArgs)
           /\ ver' = p.pVer /\ nver' = p.nver /\ pos' = p.pos
           /\ heap' = [allocs |-> p.allocs, frees |-> p.frees]
           /\ reads' = p.reads
           /\ inp' = s /\ out' = << >>

Do_serialize ==
  /\ Ready /\ pd # NULL
  /\ pd[1].sect_count <= MaxTable /\ pd[1].note_count <= MaxTable
  /\ LET r == nrb_serialize(pd)
     IN  /\ After(Result(pd, r.ret, r.fault, FALSE, I64Zero, ZeroNote),
                  "nrb_serialize", NoArgs)
         /\ out' = r.out /\ ver' = NoVer /\ nver' = 0 /\ pos' = 0
         /\ heap' = NoHeap /\ reads' = 0
         /\ inp' = << >>

Next ==
  \/ Return
  \/ Do_alloc
  \/ Do_free
  \/ Do_sections
  \/ Do_notes
  \/ Do_offset
  \/ Do_get
  \/ Do_set
  \/ Do_sect
  \/ Do_append
  \/ Do_sort
  \/ Do_parse
  \/ Do_serialize

Spec == Init /\ [][Next]_vars

(***************************************************************************)
(* The biased-byte codec on its own: nrb_writeBias8 on an empty file, then *)
(* nrb_readBias8 on the file written.  arg.i is the value given to the     *)
(* writer, out the file, ret the int nrb_readBias8 returned and val the    *)
(* value it stored through pv.                                             *)
(***************************************************************************)
BiasInputs == (-MaxBias)..MaxBias

BiasIdle ==
  /\ op = "none" /\ arg = NoArgs /\ ret = 0 /\ val = 0
  /\ fault = FALSE /\ pos = 0 /\ inp = << >> /\ out = << >>

BiasInit ==
  /\ BiasIdle
  /\ pd = NULL /\ calls = 0 /\ off = I64Zero /\ note = ZeroNote
  /\ ub = FALSE /\ pre = NULL /\ ver = NoVer /\ nver = 0 /\ heap = NoHeap
  /\ reads = 0

BiasRest ==
  UNCHANGED << pd, calls, off, note, ub, pre, ver, nver, reads, heap >>

Bias_write ==
  /\ op = "none"
  /\ \E v \in BiasInputs :
       /\ arg' = Args(v, I64Zero, ZeroNote)
       /\ out' = nrb_writeBias8(v).bytes
       /\ fault' = nrb_writeBias8(v).fault
  /\ op' = "nrb_writeBias8"
  /\ UNCHANGED << ret, val, pos, inp >>
  /\ BiasRest

Bias_read ==
  /\ op = "nrb_writeBias8" /\ ~fault
  /\ inp' = out
  /\ ret' = IF nrb_readBias8(out, 0).status THEN 1 ELSE 0
  /\ val' = nrb_readBias8(out, 0).v
  /\ pos' = nrb_readBias8(out, 0).pos
  /\ op' = "nrb_readBias8"
  /\ UNCHANGED << arg, out, fault >>
  /\ BiasRest

Bias_return ==
  /\ op = "nrb_readBias8"
  /\ op' = "none" /\ arg' = NoArgs /\ ret' = 0 /\ val' = 0
  /\ fault' = FALSE /\ pos' = 0 /\ inp' = << >> /\ out' = << >>
  /\ BiasRest

BiasNext == Bias_write \/ Bias_read \/ Bias_return

BiasSpec == BiasInit /\ [][BiasNext]_vars

(***************************************************************************)
(* Vocabulary of the properties.  A table is read through its runs: the    *)
(* elements of one run are equal, so a property of every element below     *)
(* count is a property of every run that starts below count.               *)
(***************************************************************************)
\* The index of the first element of run k of the block a.
RunStart(a, k) == ArrLen(SubSeq(a, 1, k - 1))

\* The values of the elements a[0], ..., a[count-1].
UsedValues(a, count) ==
  { a[k].v : k \in { j \in 1..Len(a) : RunStart(a, j) < count } }

\* The first k elements of the block a, as a block.
RECURSIVE ArrTake(_, _)
ArrTake(a, k) ==
  IF k <= 0 \/ a = << >> THEN << >>
  ELSE IF a[1].n >= k THEN Run(k, a[1].v)
  ELSE << a[1] >> \o ArrTake(Tail(a), k - a[1].n)

\* The section table of d: at least one section, the first at offset 0, no
\* offset below the one before it.
SectionsMonotone(d) ==
  /\ d.sect_count >= 1
  /\ ArrLen(d.pSect) >= 1
  /\ ArrGet(d.pSect, 0) = I64Zero
  /\ \A k \in 2..Len(d.pSect) :
       RunStart(d.pSect, k) < d.sect_count
         => ~I64Lt(d.pSect[k].v, d.pSect[k - 1].v)

\* The seven validator rules for the note n in the document d.
NoteValid(n, d) ==
  /\ ~I64Lt(n.start, I64Zero)
  /\ I64Lt(n.start, n.release)
  /\ n.pitch \in (-39)..48
  /\ n.art % 64 <= 61
  /\ n.ramp <= 16384
  /\ n.sect < d.sect_count
  /\ n.sect < d.sect_count => ~I64Lt(n.start, ArrGet(d.pSect, n.sect))

\* The eight signature bytes, big-endian.
Signature == U32(NRB_SIGPRI) \o U32(NRB_SIGSEC)

\* The first eight bytes of the stream s are the two signature words.
SigMatches(s) == Len(s) >= 8 /\ SubSeq(s, 1, 8) = Signature

(***************************************************************************)
(* C1  Round trip                                                          *)
(***************************************************************************)
\* What nrb_parse makes of the bytes written for the document d: a document
\* with the same section count, offsets, note count and notes in the same
\* order, and version status OK.
ParsesBackTo(p, d) ==
  /\ p.pd # NULL
  /\ p.pVer = NRB_VER_OK
  /\ p.pd[1].sect_count = d.sect_count
  /\ p.pd[1].note_count = d.note_count
  /\ \A i \in 0..(d.sect_count - 1) :
       ArrGet(p.pd[1].pSect, i) = ArrGet(d.pSect, i)
  /\ \A i \in 0..(d.note_count - 1) :
       ArrGet(p.pd[1].pNote, i) = ArrGet(d.pNote, i)

\* C1: nrb_serialize of a document with at least one note succeeds, and
\* nrb_parse of the bytes written returns a document with the same sections
\* and the same notes in the same order, with version status NRB_VER_OK.
C1_RoundTrip ==
  (op = "nrb_serialize" /\ pd[1].note_count >= 1)
    => /\ ~fault
       /\ ret = 1
       /\ ParsesBackTo(nrb_parse(out), pd[1])

\* A document built with nrb_alloc, nrb_sect and nrb_append (two sections,
\* a note in section 1 with both flag bits set) has been serialized.
C1_Witness ==
  /\ op = "nrb_serialize" /\ ret = 1
  /\ pd[1].sect_cap = NRB_SECTALLOC_INIT
  /\ pd[1].sect_count = 2
  /\ pd[1].note_count >= 1
  /\ ArrGet(pd[1].pNote, 0) = NoteB

(***************************************************************************)
(* C2  Section monotonicity                                                *)
(***************************************************************************)
\* C2: in every document, however it was made and whatever calls followed,
\* section_count >= 1, offset 0 is 0 and no offset is below the one before.
C2_SectionsMonotone == pd # NULL => SectionsMonotone(pd[1])

\* nrb_sect has added a third section to a parsed document.
C2_Witness ==
  /\ op = "nrb_sect" /\ ret = 1
  /\ pre[1].sect_cap = 2 /\ pre[1].sect_count = 2
  /\ pd[1].sect_count = 3
  /\ ArrGet(pd[1].pSect, 1) = I64(5)
  /\ ArrGet(pd[1].pSect, 2) = I64(5)

(***************************************************************************)
(* C3  Note validity                                                       *)
(***************************************************************************)
\* C3: every stored note of every document satisfies the seven validator
\* rules, also after later nrb_sect and nrb_sort calls.
C3_NotesValid ==
  pd # NULL =>
    \A n \in UsedValues(pd[1].pNote, pd[1].note_count) : NoteValid(n, pd[1])

\* nrb_sort has reordered the notes of a document that has a note in
\* section 1.
C3_Witness ==
  /\ op = "nrb_sort" /\ pd # pre
  /\ pd[1].note_count = 2
  /\ ArrGet(pd[1].pNote, 1).sect = 1

(***************************************************************************)
(* C4  Signature mismatch                                                  *)
(***************************************************************************)
\* C4: a stream whose first eight bytes are not the two signature words
\* (also a stream shorter than eight bytes) gives no document and version
\* status NRB_VER_ERROR.
C4_SignatureMismatch ==
  (op = "nrb_parse" /\ ~SigMatches(inp))
    => (pd = NULL /\ ver = NRB_VER_ERROR)

\* A whole image with version 1.0 and one signature byte changed was parsed.
C4_Witness ==
  /\ op = "nrb_parse" /\ ~SigMatches(inp)
  /\ Len(inp) >= 64 /\ inp[9] = 1 /\ inp[10] = 0
  /\ ver = NRB_VER_ERROR

(***************************************************************************)
(* C5  Unsupported major version                                           *)
(***************************************************************************)
\* C5 as claimed: matching signature and a major version byte that is
\* present and not 1 give no document and status NRB_VER_MAJOR, also when
\* the stream ends right after the major version byte.
C5_Original ==
  (op = "nrb_parse" /\ SigMatches(inp) /\ Len(inp) >= 9 /\ inp[9] # 1)
    => (pd = NULL /\ ver = NRB_VER_MAJOR)

\* C5 amended: matching signature, major and minor version bytes both
\* present and major not 1 give no document and status NRB_VER_MAJOR,
\* whatever follows the minor byte; a stream that ends right after the major
\* version byte gives no document and status NRB_VER_ERROR.
C5_MajorUnsupported ==
  /\ (op = "nrb_parse" /\ SigMatches(inp) /\ Len(inp) >= 10 /\ inp[9] # 1)
       => (pd = NULL /\ ver = NRB_VER_MAJOR)
  /\ (op = "nrb_parse" /\ SigMatches(inp) /\ Len(inp) = 9)
       => (pd = NULL /\ ver = NRB_VER_ERROR)

\* A stream that ends right after the minor version byte, major version 2.
C5_Witness ==
  /\ op = "nrb_parse" /\ SigMatches(inp)
  /\ Len(inp) = 10 /\ inp[9] = 2
  /\ ver = NRB_VER_MAJOR

(***************************************************************************)
(* C6  Minor version handling                                              *)
(***************************************************************************)
\* The stream s with its four reserved fields (bytes 16..31) zero.
RECURSIVE ZeroReserved(_, _)
ZeroReserved(s, k) ==
  IF k > 31 \/ k >= Len(s) THEN s ELSE ZeroReserved(Patch(s, k, 0), k + 1)

\* The counts, the section table and the note table of the stream s are
\* valid: they are accepted under version 1.0 and zero reserved fields.
ContentValid(s) ==
  /\ Len(s) >= 10
  /\ nrb_parse(ZeroReserved(WithVersion(s, << 1, 0 >>), 16)).pd # NULL

\* C6 as claimed: matching signature, major version 1 and valid content
\* give a document, with status OK for minor 0 and MINOR for any other
\* minor, and the same document for every minor byte.
C6_Original ==
  (op = "nrb_parse" /\ SigMatches(inp) /\ Len(inp) >= 10 /\ inp[9] = 1
     /\ ContentValid(inp))
    => /\ pd # NULL
       /\ ver = IF inp[10] = 0 THEN NRB_VER_OK ELSE NRB_VER_MINOR
       /\ pd = nrb_parse(WithVersion(inp, << 1, 0 >>)).pd

(***************************************************************************)
(* C7  Version status reporting                                            *)
(***************************************************************************)
\* Signature matches, both version bytes are present and major is 1.
HeaderValid(s) == SigMatches(s) /\ Len(s) >= 10 /\ s[9] = 1

\* C7: nrb_parse writes the status exactly once, one of the four codes; a
\* document comes only with OK or MINOR; with a valid header the status is
\* OK (minor 0) or MINOR (minor not 0) also when the call fails later.
C7_VersionStatus ==
  op = "nrb_parse" =>
    /\ nver = 1
    /\ ver \in { NRB_VER_OK, NRB_VER_MINOR, NRB_VER_MAJOR, NRB_VER_ERROR }
    /\ pd # NULL => ver \in { NRB_VER_OK, NRB_VER_MINOR }
    /\ HeaderValid(inp) =>
         ver = IF inp[10] = 0 THEN NRB_VER_OK ELSE NRB_VER_MINOR

\* A whole image with a valid header and a non-zero minor version failed
\* after the header.
C7_Witness ==
  /\ op = "nrb_parse" /\ HeaderValid(inp) /\ Len(inp) >= 64
  /\ pd = NULL /\ ver = NRB_VER_MINOR

(***************************************************************************)
(* C8  Note growth                                                         *)
(***************************************************************************)
\* C8: nrb_append of a valid note returns success exactly when note_count
\* was below 1,048,576; on success the count grows by one, the new note is
\* at the old count and the earlier notes are unchanged; on failure the
\* document is unchanged.
C8_AppendGrowth ==
  (op = "nrb_append" /\ NoteValid(arg.n, pre[1]))
    => /\ ~fault /\ ~ub
       /\ ret \in { 0, 1 }
       /\ ret = 1 <=> pre[1].note_count < 1048576
       /\ ret = 1 =>
            /\ pd[1].note_count = pre[1].note_count + 1
            /\ pd[1].note_count <= ArrLen(pd[1].pNote)
            /\ ArrGet(pd[1].pNote, pre[1].note_count) = arg.n
            /\ ArrTake(pd[1].pNote, pre[1].note_count)
                 = ArrTake(pre[1].pNote, pre[1].note_count)
       /\ ret = 0 => pd = pre

\* nrb_append has failed on a document that holds 1,048,576 notes.
C8_Witness ==
  /\ op = "nrb_append" /\ ~fault /\ ret = 0
  /\ pre[1].note_count = NRB_MAXNOTE

(***************************************************************************)
(* C9  Section append outcome                                              *)
(***************************************************************************)
\* The last section offset of the document d.
LastOffset(d) == ArrGet(d.pSect, d.sect_count - 1)

\* C9: nrb_sect returns failure only at 65,535 sections and then changes
\* nothing; below the ceiling an offset not below the last one is appended;
\* at the ceiling such an offset gets the failure result and nothing else.
C9_SectOutcome ==
  op = "nrb_sect" =>
    /\ (~fault /\ ret = 0) => (pre[1].sect_count = 65535 /\ pd = pre)
    /\ ~I64Lt(arg.o, LastOffset(pre[1])) =>
         /\ ~fault /\ ~ub
         /\ pre[1].sect_count < 65535 =>
              /\ ret = 1
              /\ pd[1].sect_count = pre[1].sect_count + 1
              /\ LastOffset(pd[1]) = arg.o
              /\ ArrTake(pd[1].pSect, pre[1].sect_count)
                   = ArrTake(pre[1].pSect, pre[1].sect_count)
         /\ pre[1].sect_count = 65535 => ret = 0

\* nrb_sect has failed on a document that holds 65,535 sections.
C9_Witness ==
  /\ op = "nrb_sect" /\ ~fault /\ ret = 0
  /\ pre[1].sect_count = NRB_MAXSECT

(***************************************************************************)
(* C10  Contract violations                                                *)
(***************************************************************************)
\* C10: an invalid note given to nrb_append or nrb_set, an index outside
\* the table given to nrb_set, nrb_get or nrb_offset, and an offset below
\* the last one (or negative) given to nrb_sect all end in abort(), with
\* the document as it was before the call.
C10_ContractViolations ==
  /\ (op = "nrb_append" /\ ~NoteValid(arg.n, pre[1]))
       => (fault /\ pd = pre)
  /\ (op = "nrb_set" /\ ~NoteValid(arg.n, pre[1]))
       => (fault /\ pd = pre)
  /\ (op \in { "nrb_set", "nrb_get" }
        /\ arg.i \notin 0..(pre[1].note_count - 1))
       => (fault /\ pd = pre)
  /\ (op = "nrb_offset" /\ arg.i \notin 0..(pre[1].sect_count - 1))
       => (fault /\ pd = pre)
  /\ (op = "nrb_sect"
        /\ (I64Lt(arg.o, LastOffset(pre[1])) \/ I64Lt(arg.o, I64Zero)))
       => (fault /\ pd = pre)

\* nrb_append was given a note with release <= start on a document that
\* holds notes: the call aborted and the note count is what it was.
C10_Witness ==
  /\ op = "nrb_append" /\ fault
  /\ I64Le(arg.n.release, arg.n.start)
  /\ pre[1].note_count >= 1
  /\ pd[1].note_count = pre[1].note_count

(***************************************************************************)
(* C11  Empty-document serialize                                           *)
(***************************************************************************)
\* C11: nrb_serialize on a document without notes returns 0, writes no byte
\* and leaves the document as it was; on a document with at least one note
\* it returns 1.
C11_EmptySerialize ==
  op = "nrb_serialize" =>
    /\ ~fault
    /\ pre[1].note_count = 0 => (ret = 0 /\ out = << >> /\ pd = pre)
    /\ pre[1].note_count >= 1 => ret = 1

\* nrb_serialize has been called on a document with two sections and no
\* note.
C11_Witness ==
  /\ op = "nrb_serialize" /\ ret = 0 /\ out = << >>
  /\ pre[1].sect_count = 2 /\ pre[1].note_count = 0

(***************************************************************************)
(* C12  Serialized layout                                                  *)
(***************************************************************************)
\* The w bytes of the unsigned integer v, most significant first.
BigEndian(v, w) == [i \in 1..w |-> (v \div (256 ^ (w - i))) % 256]

\* The bytes of one note record; 64-bit values are held as their bytes.
NoteBytes(n) ==
  n.start \o n.release \o << n.pitch + 128, n.art >>
    \o BigEndian(n.ramp, 2) \o BigEndian(n.sect, 2) \o BigEndian(n.layer_i, 2)

RECURSIVE SectionBytes(_, _)
SectionBytes(d, i) ==
  IF i >= d.sect_count THEN << >>
  ELSE ArrGet(d.pSect, i) \o SectionBytes(d, i + 1)

RECURSIVE NoteTableBytes(_, _)
NoteTableBytes(d, i) ==
  IF i >= d.note_count THEN << >>
  ELSE NoteBytes(ArrGet(d.pNote, i)) \o NoteTableBytes(d, i + 1)

\* The image of the document d: header with version 1.0 and zero reserved
\* words, section table, note table.
ImageBytes(d) ==
  BigEndian(NRB_SIGPRI, 4) \o BigEndian(NRB_SIGSEC, 4) \o << 1, 0 >>
    \o BigEndian(d.sect_count, 2) \o BigEndian(d.note_count, 4)
    \o [i \in 1..16 |-> 0]
    \o SectionBytes(d, 0) \o NoteTableBytes(d, 0)

\* The layout part of C12, for the serialize call just made and for the
\* image of every document nrb_parse returns, whatever minor version and
\* reserved words its stream had.
LayoutAsClaimed ==
  /\ (op = "nrb_serialize" /\ pre[1].note_count >= 1)
       => out = ImageBytes(pre[1])
  /\ (op = "nrb_parse" /\ pd # NULL)
       => nrb_serialize(pd).out = ImageBytes(pd[1])

\* C12 as claimed: the layout above, in 32 + 8*S + 16*N bytes.
C12_Original ==
  /\ LayoutAsClaimed
  /\ (op = "nrb_serialize" /\ pre[1].note_count >= 1)
       => Len(out) = 32 + 8 * pre[1].sect_count + 16 * pre[1].note_count

\* C12 amended: for S sections and N >= 1 notes nrb_serialize writes
\* exactly 32 + 8*S + 24*N bytes: the two signatures, version bytes 1 and 0,
\* 16-bit S, 32-bit N, four zero words, the S offsets, then for each note
\* start(8) release(8) pitch+128(1) art(1) ramp(2) sect(2) layer_i(2), all
\* big-endian; also for documents parsed from a stream with another minor
\* version or non-zero reserved words.
C12_Layout ==
  /\ LayoutAsClaimed
  /\ (op = "nrb_serialize" /\ pre[1].note_count >= 1)
       => Len(out) = 32 + 8 * pre[1].sect_count + 24 * pre[1].note_count

\* A parsed document with two sections and two notes has been serialized
\* into 96 bytes.
C12_Witness ==
  /\ op = "nrb_serialize" /\ ret = 1
  /\ pre[1].sect_cap = 2 /\ pre[1].sect_count = 2
  /\ pre[1].note_cap = 2 /\ pre[1].note_count = 2
  /\ Len(out) = 96

(***************************************************************************)
(* C13  Reserved fields                                                    *)
(***************************************************************************)
\* C13 as claimed: a stream that holds all four reserved fields gives the
\* result of the stream that differs from it only by zero reserved fields:
\* the same document or none, the same version status.
C13_Original ==
  (op = "nrb_parse" /\ Len(inp) >= 32)
    => /\ pd = nrb_parse(ZeroReserved(inp, 16)).pd
       /\ ver = nrb_parse(ZeroReserved(inp, 16)).pVer

(***************************************************************************)
(* C14  No storage left behind on parse failure                            *)
(***************************************************************************)
\* The blocks nrb_parse can allocate.
Blocks == { "pd", "pSect", "pNote" }

\* How many times the block b occurs in the log q.
Times(q, b) == Cardinality({ i \in DOMAIN q : q[i] = b })

\* C14: when nrb_parse returns no document, every block it allocated has
\* been freed exactly once and no other block has been freed; when it
\* returns a document, the structure and the two tables have been allocated
\* once each and none has been freed.
C14_NoStorageLeft ==
  op = "nrb_parse" =>
    \A b \in Blocks :
      /\ Times(heap.allocs, b) <= 1
      /\ pd = NULL => Times(heap.frees, b) = Times(heap.allocs, b)
      /\ pd # NULL => (Times(heap.allocs, b) = 1 /\ Times(heap.frees, b) = 0)

\* nrb_parse has failed in the note table, after all three blocks were
\* allocated, and has freed the three of them.
C14_Witness ==
  /\ op = "nrb_parse" /\ pd = NULL
  /\ pos > 32 + 8
  /\ Len(heap.allocs) = 3 /\ Len(heap.frees) = 3

(***************************************************************************)
(* C15  Sort                                                               *)
(***************************************************************************)
\* The notes of the document d, in order.
NotesOf(d) == ArrPrefix(d.pNote, d.note_count)

\* The start values of the notes q, in order.
Starts(q) == [i \in DOMAIN q |-> q[i].start]

\* No start value of q is below the one before it.
Ascending(q) == \A i \in 1..(Len(q) - 1) : ~I64Lt(q[i + 1].start, q[i].start)

\* C15: after nrb_sort the notes are the notes before the call in some
\* order (every record as often as before), their starts do not decrease,
\* and the sections are unchanged; nrb_sort on notes already in start order
\* leaves the sequence of start values as it was, and the whole document
\* when no two starts are equal.
C15_Sort ==
  op = "nrb_sort" =>
    /\ ~fault /\ ~ub
    /\ pd[1].note_count = pre[1].note_count
    /\ \A n \in UsedValues(pre[1].pNote, pre[1].note_count)
              \cup UsedValues(pd[1].pNote, pd[1].note_count) :
         Times(NotesOf(pd[1]), n) = Times(NotesOf(pre[1]), n)
    /\ Ascending(NotesOf(pd[1]))
    /\ pd[1].sect_count = pre[1].sect_count
    /\ pd[1].pSect = pre[1].pSect
    /\ Ascending(NotesOf(pre[1])) =>
         /\ Starts(NotesOf(pd[1])) = Starts(NotesOf(pre[1]))
         /\ Cardinality({ n.start : n \in UsedValues(pre[1].pNote,
                                                     pre[1].note_count) })
              = pre[1].note_count => pd = pre

\* nrb_sort was called on three notes already in start order, two of them
\* with the same start, and has exchanged those two.
C15_Witness ==
  /\ op = "nrb_sort" /\ pre[1].note_count = 3
  /\ Ascending(NotesOf(pre[1]))
  /\ pd # pre
  /\ ArrGet(pd[1].pNote, 0) = ArrGet(pre[1].pNote, 1)

(***************************************************************************)
(* C16  Bias encoding symmetry                                             *)
(***************************************************************************)
\* C16: for v in -128..127 nrb_writeBias8 writes the one byte v + 128, and
\* nrb_readBias8 on that byte returns success and stores v; for any other v
\* the writer ends in abort() and has written nothing.
C16_BiasSymmetry ==
  /\ op = "nrb_writeBias8" =>
       IF arg.i \in (-128)..127
       THEN ~fault /\ out = << arg.i + 128 >> /\ out[1] \in 0..255
       ELSE fault /\ out = << >>
  /\ op = "nrb_readBias8" =>
       (arg.i \in (-128)..127 /\ ret = 1 /\ val = arg.i /\ pos = 1)

\* The value -128 has been written as the byte 0 and read back.
C16_Witness ==
  /\ op = "nrb_readBias8" /\ arg.i = -128
  /\ inp = << 0 >> /\ ret = 1 /\ val = -128

(***************************************************************************)
(* C17  Parsed count bounds                                                *)
(***************************************************************************)
\* The 16-bit section count field of the stream s.
SectField(s) == s[11] * 256 + s[12]

\* The 32-bit note count field of s is above 1,048,576.
NoteFieldAbove(s) ==
  s[13] > 0 \/ (s[14] * 256 + s[15]) * 256 + s[16] > 1048576

\* The 32-bit note count field of s, when it is not above 1,048,576.
NoteField(s) == (s[14] * 256 + s[15]) * 256 + s[16]

Tails == { << 0 >>, << 255, 255, 255 >>, << 114, 237, 240, 120 >> }

\* A stream that parses to a document gives the same document, version
\* status and end position when bytes are put after it.
TailsIgnored ==
  (op = "nrb_parse" /\ pd # NULL) =>
    \A t \in Tails :
      /\ nrb_parse(inp \o t).pd = pd
      /\ nrb_parse(inp \o t).pVer = ver
      /\ nrb_parse(inp \o t).pos = pos

\* C18 as claimed: a successful parse consumes exactly 32 + 8*S + 16*N
\* bytes, and bytes after the image change nothing.
C18_Original ==
  /\ (op = "nrb_parse" /\ pd # NULL)
       => pos = 32 + 8 * pd[1].sect_count + 16 * pd[1].note_count
  /\ TailsIgnored

\* C18 amended: a successful parse of a stream declaring S sections and N
\* notes consumes exactly the first 32 + 8*S + 24*N bytes, and bytes after
\* the image change neither the document nor the version status.
C18_TrailingIgnored ==
  /\ (op = "nrb_parse" /\ pd # NULL)
       => pos = 32 + 8 * pd[1].sect_count + 24 * pd[1].note_count
  /\ TailsIgnored

\* An image of two sections and two notes followed by three more bytes was
\* parsed to a document; the parse ended after byte 96.
C18_Witness ==
  /\ op = "nrb_parse" /\ pd # NULL
  /\ pd[1].sect_count = 2 /\ pd[1].note_count = 2
  /\ pos = 96 /\ Len(inp) = 99

(***************************************************************************)
(* C19  What nrb_set and the getters leave alone                           *)
(***************************************************************************)
\* The block a without its first k elements, as a block.
RECURSIVE ArrDrop(_, _)
ArrDrop(a, k) ==
  IF k <= 0 \/ a = << >> THEN a
  ELSE IF a[1].n > k THEN << [a[1] EXCEPT !.n = @ - k] >> \o Tail(a)
  ELSE ArrDrop(Tail(a), k - a[1].n)

\* nrb_set(i, n) was called with an index inside the note table and a note
\* that satisfies the validator rules.
SetInContract ==
  /\ op = "nrb_set" /\ pre # NULL
  /\ arg.i >= 0 /\ arg.i < pre[1].note_count
  /\ NoteValid(arg.n, pre[1])

\* C19: nrb_set(i, n) with 0 <= i < note_count and a valid n returns with
\* nrb_get(i) equal to n, every other element of the note table as it was,
\* and the counts and the section table as they were; nrb_get, nrb_offset,
\* nrb_sections and nrb_notes leave the document as it was.
C19_SetFrame ==
  /\ SetInContract =>
       /\ ~fault /\ ~ub /\ pd # NULL
       /\ ~nrb_get(pd, arg.i).fault
       /\ nrb_get(pd, arg.i).note = arg.n
       /\ ArrTake(pd[1].pNote, arg.i) = ArrTake(pre[1].pNote, arg.i)
       /\ ArrDrop(pd[1].pNote, arg.i + 1) = ArrDrop(pre[1].pNote, arg.i + 1)
       /\ pd[1].note_count = pre[1].note_count
       /\ pd[1].note_cap = pre[1].note_cap
       /\ pd[1].sect_count = pre[1].sect_count
       /\ pd[1].sect_cap = pre[1].sect_cap
       /\ pd[1].pSect = pre[1].pSect
  /\ op \in { "nrb_get", "nrb_offset", "nrb_sections", "nrb_notes" }
       => pd = pre

\* The last of at least two notes was replaced by a different valid note.
C19_Witness ==
  /\ SetInContract /\ ~fault
  /\ pre[1].note_count >= 2 /\ arg.i = pre[1].note_count - 1
  /\ pd # pre

(***************************************************************************)
(* C20  The parser and the editing calls accept the same records           *)
(***************************************************************************)
\* The 32 header bytes of a version 1.0 image declaring ks sections and kn
\* notes.
HeaderBytes(ks, kn) ==
  BigEndian(NRB_SIGPRI, 4) \o BigEndian(NRB_SIGSEC, 4) \o << 1, 0 >>
    \o BigEndian(ks, 2) \o BigEndian(kn, 4) \o [i \in 1..16 |-> 0]

\* The image whose section table is that of d and whose note table is the
\* one record n, valid or not.
NoteImage(d, n) ==
  HeaderBytes(d.sect_count, 1) \o SectionBytes(d, 0) \o NoteBytes(n)

\* The image whose section table is that of d followed by the offset o, with
\* one note that every section table admits.
SectImage(d, o) ==
  HeaderBytes(d.sect_count + 1, 1) \o SectionBytes(d, 0) \o o
    \o NoteBytes(NoteA)

\* NoteA with the articulation byte a and the layer l.
Flagged(a, l) == [NoteA EXCEPT !.art = a, !.layer_i = l]

Layers == { 0, 1, 255, 256, 32768, 65535 }

\* An nrb_append call, or an nrb_set call with an index inside the note
\* table, on a document whose section table is small enough to write out.
NoteCallMade ==
  /\ op \in { "nrb_append", "nrb_set" } /\ pre # NULL
  /\ pre[1].sect_count <= MaxTable
  /\ op = "nrb_set" => (arg.i >= 0 /\ arg.i < pre[1].note_count)

SectCallMade ==
  /\ op = "nrb_sect" /\ pre # NULL
  /\ pre[1].sect_count < MaxTable

\* C20: nrb_append and nrb_set fault on a note record exactly when nrb_parse
\* rejects the image holding the same section table and that record, and
\* exactly when the record breaks one of rules 1-7; every articulation byte
\* whose low six bits are at most 61 and every 16-bit layer is accepted on
\* both paths, a low six-bit value of 62 or 63 is rejected on both; nrb_sect
\* faults on an offset exactly when nrb_parse rejects the section table
\* extended by that offset.
C20_ValidatorSymmetry ==
  /\ NoteCallMade =>
       /\ fault <=> nrb_parse(NoteImage(pre[1], arg.n)).pd = NULL
       /\ fault <=> ~NoteValid(arg.n, pre[1])
  /\ SectCallMade =>
       (fault <=> nrb_parse(SectImage(pre[1], arg.o)).pd = NULL)
  /\ (op = "nrb_alloc" /\ pd # NULL) =>
       \A a \in 0..255, l \in Layers :
         /\ nrb_append(pd, Flagged(a, l)).fault <=> a % 64 >= 62
         /\ nrb_parse(NoteImage(pd[1], Flagged(a, l))).pd = NULL
              <=> a % 64 >= 62

\* nrb_append took a note with both flag bits set, index 61 and layer 65535
\* into a document with two sections, and the parser takes its image.
C20_Witness ==
  /\ NoteCallMade /\ op = "nrb_append" /\ ~fault
  /\ arg.n.art = 253 /\ arg.n.layer_i = 65535
  /\ pre[1].sect_count = 2
  /\ nrb_parse(NoteImage(pre[1], arg.n)).pd # NULL

(***************************************************************************)
(* C21  Capacities                                                         *)
(***************************************************************************)
\* min(max(2 * cap, init), ceiling).
Grown(cap, init, ceiling) ==
  IF 2 * cap >= init
  THEN (IF 2 * cap <= ceiling THEN 2 * cap ELSE ceiling)
  ELSE (IF init <= ceiling THEN init ELSE ceiling)

\* The big-endian number in bytes a..b of the stream s.
RECURSIVE FieldValue(_, _, _)
FieldValue(s, a, b) ==
  IF b < a THEN 0 ELSE 256 * FieldValue(s, a, b - 1) + s[b]

\* The counts are inside the capacities, the capacities inside the ceilings,
\* and each table is a block of as many elements as its capacity.
CapacitiesHold(d) ==
  /\ 1 <= d.sect_count /\ d.sect_count <= d.sect_cap /\ d.sect_cap <= 65535
  /\ 0 <= d.note_count /\ d.note_count <= d.note_cap
  /\ 1 <= d.note_cap /\ d.note_cap <= 1048576
  /\ ArrLen(d.pSect) = d.sect_cap
  /\ ArrLen(d.pNote) = d.note_cap

\* nrb_sect has added a section to the document.
SectAdded == op = "nrb_sect" /\ ~fault /\ ret = 1

\* nrb_append has added a note to the document.
NoteAdded == op = "nrb_append" /\ ~fault /\ ret = 1

FieldStarts(ks, kn) ==
  { 0, 4, 8, 9, 10, 12, 16, 20, 24, 28 }
    \cup { 32 + 8 * k : k \in 0..(ks - 1) }
    \cup { 32 + 8 * ks + 24 * j + o :
             j \in 0..(kn - 1), o \in { 0, 8, 16, 17, 18, 20, 22 } }

\* The fields of the image b that begin at or before position n; the last
\* of them is the field that cannot be read from the first n bytes of b.
FieldsBegun(b, n) ==
  { s \in FieldStarts(FieldValue(b, 11, 12), FieldValue(b, 13, 16)) : s <= n }

\* s is the image b without one or more of its last bytes.
ProperPrefix(s, b) == Len(s) < Len(b) /\ s = SubSeq(b, 1, Len(s))

\* C22: nrb_parse of a proper prefix of the bytes nrb_serialize wrote
\* returns no document, leaves NRB_VER_ERROR when the prefix has fewer than
\* 10 bytes and NRB_VER_OK otherwise, and calls a field reader once for each
\* field up to the one the prefix ends in and never after it.
C22_Truncated ==
  op = "nrb_parse" =>
    \A b \in Bases :
      ProperPrefix(inp, b) =>
        /\ pd = NULL
        /\ ver = IF Len(inp) < 10 THEN 3 ELSE 0
        /\ reads = Cardinality(FieldsBegun(b, Len(inp)))
        /\ pos = Len(inp)

\* The two-section two-note image was cut inside the first note, two bytes
\* before the note's end: the layer field is the nineteenth and last read.
C22_Witness ==
  /\ op = "nrb_parse" /\ pd = NULL
  /\ ProperPrefix(inp, nrb_serialize(BaseDoc2).out)
  /\ Len(inp) = 70 /\ reads = 19 /\ ver = 0

(***************************************************************************)
(* C23  Parse, then serialize                                              *)
(***************************************************************************)
\* The bytes nrb_serialize writes for the document in hand.
Rewritten == nrb_serialize(pd).out

\* Positions (from 1) of the minor version byte and the reserved words.
Zeroed == { 10 } \cup (17..32)

\* The stream just parsed has minor version 0 and zero reserved words.
Canonical == \A k \in Zeroed : inp[k] = 0

\* The reverse round trip with per bytes to a note: the document parsed
\* from inp is written as the first 32 + 8*S + per*N bytes of inp with the
\* minor version byte and the reserved words zero, which is inp itself when
\* inp is canonical and has no more bytes; and the bytes written for a
\* document parse to a document that is written as the same bytes.
ReverseRoundTrip(per) ==
  /\ (op = "nrb_parse" /\ pd # NULL) =>
       /\ ~nrb_serialize(pd).fault /\ nrb_serialize(pd).ret = 1
       /\ Len(Rewritten)
            = 32 + 8 * pd[1].sect_count + per * pd[1].note_count
       /\ Len(Rewritten) <= Len(inp)
       /\ \A k \in 1..Len(Rewritten) :
            Rewritten[k] = IF k \in Zeroed THEN 0 ELSE inp[k]
       /\ (Canonical /\ Len(inp) = Len(Rewritten)) => Rewritten = inp
  /\ (op = "nrb_serialize" /\ pre # NULL /\ pre[1].note_count >= 1) =>
       /\ nrb_parse(out).pd # NULL
       /\ nrb_serialize(nrb_parse(out).pd).out = out

\* C23 as claimed: the reverse round trip over the first 32 + 8*S + 16*N
\* bytes of the stream.
C23_Original == ReverseRoundTrip(16)

\* C23 amended: for every stream B that nrb_parse accepts, serializing the
\* returned document writes B's first 32 + 8*S + 24*N bytes except that the
\* minor version byte and the four reserved words are written 0; when B has
\* minor 0, zero reserved words and no trailing data the bytes written are
\* B; and serialize(parse(serialize(D))) = serialize(D) when D has a note.
C23_ReverseRoundTrip == ReverseRoundTrip(24)

\* A two-section two-note stream with minor version 1 and a reserved word
\* of 255 was parsed; the document is written as different bytes.
C23_Witness ==
  /\ op = "nrb_parse" /\ pd # NULL
  /\ pd[1].sect_count = 2 /\ pd[1].note_count = 2
  /\ inp[10] = 1 /\ inp[20] = 255
  /\ Rewritten # inp /\ Len(Rewritten) = Len(inp)

=============================================================================
